---- MODULE Spec2Model ----
(***************************************************************************)
(* Task tracker (src/python/task-tracker/oop/task-cli.py): the TaskStorage *)
(* class, its backing file tasks.json and the life of one invocation       *)
(* (TaskStorage.__init__, one operation, exit).                            *)
(*                                                                         *)
(* Strings the code inspects character by character (descriptions, the    *)
(* task_id operand) are sequences of one-character strings.  Optional     *)
(* values are sequences of length 0 (None) or 1.  Timestamps are ticks of *)
(* a clock.                                                                *)
(***************************************************************************)
EXTENDS Integers, Sequences, FiniteSets, TLC

VARIABLES
    file,      \* content of tasks.json
    data,      \* self.data of the running (or last finished) process
    pc,        \* "off": no process; "ready": TaskStorage constructed
    clock,     \* datetime.now()
    last,      \* what the last step did and the state it started from
               \* (observation only; `deleted` is the id the last operation
               \* removed, `afterDelete` the id the operation before it removed,
               \* `now` the time the operation read)
    returned,  \* ids returned by successful new_task calls, in order
    peer       \* a second invocation running at the same time as the first:
               \* its position, its self.data and what it did

vars == <<file, data, pc, clock, last, returned, peer>>

\* ------------------------------------------------------------------ bounds
\* MaxCount caps the number of successful new_task calls of a run, MaxClock
\* the clock.
MaxCount == 3
MaxClock == 2

\* ------------------------------------------------------------ Python values
None == <<>>
Some(x) == <<x>>

Whitespace == {" ", "\t"}
Digits == {"0", "1", "2", "3", "4", "5", "6", "7", "8", "9"}

RECURSIVE LStrip(_)
LStrip(s) ==
    IF s = <<>> THEN s
    ELSE IF Head(s) \in Whitespace THEN LStrip(Tail(s)) ELSE s

RECURSIVE RStrip(_)
RStrip(s) ==
    IF s = <<>> THEN s
    ELSE IF s[Len(s)] \in Whitespace THEN RStrip(SubSeq(s, 1, Len(s) - 1)) ELSE s

\* str.strip()
Strip(s) == RStrip(LStrip(s))

DigitVal(c) ==
    CASE c = "0" -> 0 [] c = "1" -> 1 [] c = "2" -> 2 [] c = "3" -> 3
      [] c = "4" -> 4 [] c = "5" -> 5 [] c = "6" -> 6 [] c = "7" -> 7
      [] c = "8" -> 8 [] c = "9" -> 9

RECURSIVE DigitsVal(_)
DigitsVal(s) ==
    IF s = <<>> THEN 0
    ELSE 10 * DigitsVal(SubSeq(s, 1, Len(s) - 1)) + DigitVal(s[Len(s)])

AllDigits(s) == s # <<>> /\ \A i \in 1..Len(s) : s[i] \in Digits

\* int(task_id) for a str operand: [ok |-> FALSE] stands for ValueError.
ParseInt(s) ==
    LET t == Strip(s)
        signed == t # <<>> /\ Head(t) \in {"+", "-"}
        body == IF signed THEN Tail(t) ELSE t
    IN  IF AllDigits(body)
        THEN [ok |-> TRUE,
              val |-> IF signed /\ Head(t) = "-" THEN 0 - DigitsVal(body)
                      ELSE DigitsVal(body)]
        ELSE [ok |-> FALSE, val |-> 0]

\* variant of TruthyStr: a whitespace-only str counts as empty
TruthyStripped(s) == Strip(s) # <<>>

\* Python truthiness of a str
TruthyStr(s) == s # <<>>

\* Python truthiness of an Optional[str] status (None and "" are falsy)
TruthyStatus(status) == status # None /\ status[1] # ""

\* ------------------------------------------------------------------ inputs
Descriptions == {<<>>, <<" ">>, <<"a">>}
TaskIds == {<<"1">>, <<" ", "2">>, <<"9">>, <<"x">>}
Statuses == {None, Some(""), Some("done"), Some("bogus")}
StatusFilters == {"", "todo", "done", "bogus"}

\* ------------------------------------------------------------- error kinds
NoError == "none"
EmptyDescription == "Task description cannot be empty"
InvalidTaskId == "Invalid task ID"
InvalidStatus == "Invalid status"
TaskNotFound == "Task not found"
InvalidArgument == {EmptyDescription, InvalidTaskId, InvalidStatus}
NotFound == {TaskNotFound}

\* ------------------------------------------------------------------- state
\* self.data.  shape "dict" is a dict with tasks and count; shape "list" is a
\* JSON array that the constructor accepted (tasks and count then unused).
DefaultData == [shape |-> "dict", tasks |-> <<>>, count |-> 0]

\* File contents.  kind: "absent", "empty" (size 0), "invalid" (text that is
\* not JSON), "partial" (a proper prefix of a dump), "object" (a JSON object
\* with the keys in `keys`), "array" (a JSON array with the strings in `keys`
\* among its elements), "scalar" (a JSON number, true, false or null).
FileOf(kind) == [kind |-> kind, keys |-> {}, tasks |-> <<>>, count |-> 0]

ObjectFile(keys, tasks, count) ==
    [kind |-> "object", keys |-> keys,
     tasks |-> IF "tasks" \in keys THEN tasks ELSE <<>>,
     count |-> IF "count" \in keys THEN count ELSE 0]

ArrayFile(elems) == [kind |-> "array", keys |-> elems, tasks |-> <<>>, count |-> 0]

\* variant of JsonDump: the count is not written
JsonDumpTasksOnly(d) ==
    IF d.shape = "dict"
    THEN ObjectFile({"tasks"}, d.tasks, 0)
    ELSE ArrayFile({"tasks", "count"})

\* json.dump(self.data, file, indent=4): the whole of self.data
JsonDump(d) ==
    IF d.shape = "dict"
    THEN ObjectFile({"tasks", "count"}, d.tasks, d.count)
    ELSE ArrayFile({"tasks", "count"})

\* variant of save_data: a file that holds a higher count is not overwritten
save_data_unless_newer(d) ==
    IF file.kind = "object" /\ d.shape = "dict" /\ file.count > d.count
    THEN file ELSE JsonDump(d)

\* _save_data: open(filename, 'w') and dump self.data
save_data(d) == JsonDump(d)

\* json.load(file): [ok |-> FALSE] stands for json.JSONDecodeError.  `keys`
\* is what the `in` operator finds in the value.
JsonLoad(f) ==
    CASE f.kind = "object" ->
            [ok |-> TRUE, shape |-> "dict", keys |-> f.keys,
             value |-> [shape |-> "dict", tasks |-> f.tasks, count |-> f.count]]
      [] f.kind = "array" ->
            [ok |-> TRUE, shape |-> "list", keys |-> f.keys,
             value |-> [shape |-> "list", tasks |-> <<>>, count |-> 0]]
      [] f.kind = "scalar" ->
            [ok |-> TRUE, shape |-> "scalar", keys |-> {}, value |-> DefaultData]
      [] OTHER ->
            [ok |-> FALSE, shape |-> "none", keys |-> {}, value |-> DefaultData]

NoOut == [kind |-> "none", ids |-> <<>>]

NoLast ==
    [op |-> "none", task_id |-> <<>>, description |-> <<>>, status |-> None,
     filter |-> "", err |-> NoError, ret |-> 0, saved |-> FALSE, out |-> NoOut,
     before |-> DefaultData, fileBefore |-> FileOf("absent"),
     deleted |-> None, afterDelete |-> None, now |-> 0, exit |-> "ok"]

\* How the invocation ends when `err` leaves the constructor or the
\* operation.  main constructs TaskTrackerCli, and with it the TaskStorage,
\* before its try block: an exception of the constructor is caught by nobody
\* and the interpreter prints a traceback.  An exception of the operation is
\* caught by execute (ValueError) or by main (any other) and printed as
\* "Error: <message>".
ExitOf(where, err) ==
    CASE err = NoError -> "ok"
      [] err # NoError /\ where = "constructor" -> "traceback"
      [] err # NoError /\ where = "execute" -> "Error"

\* The second invocation: pc is "off" (no process), "ready" (TaskStorage
\* constructed) or "done" (operation finished, process not yet gone); loaded
\* is the self.data its constructor built; afterFirst tells that the first
\* invocation had finished when this one ran its operation.
NoPeer ==
    [pc |-> "off", data |-> DefaultData, loaded |-> DefaultData, op |-> "none",
     err |-> NoError, ret |-> 0, saved |-> FALSE, afterFirst |-> FALSE]

\* Files a first run can meet that leave the store a dict: no file, an empty
\* file, text that is not JSON, an object with or without the two keys.
InitFiles ==
    {FileOf("absent"), FileOf("empty"), FileOf("invalid")}
    \cup {ObjectFile(k, <<>>, 0) : k \in SUBSET {"tasks", "count"}}

\* Every JSON text a first run can meet: also arrays and scalars.
AnyInitFiles ==
    InitFiles \cup {FileOf("scalar")}
    \cup {ArrayFile(k) : k \in SUBSET {"tasks", "count"}}

InitRest ==
    /\ data = DefaultData
    /\ pc = "off"
    /\ clock = 1
    /\ last = NoLast
    /\ returned = <<>>
    /\ peer = NoPeer

Init == file \in InitFiles /\ InitRest

InitAnyFile == file \in AnyInitFiles /\ InitRest

\* ------------------------------------------------------ TaskStorage.__init__
\* variant of StorageInit: text that is not JSON is left in the file
StorageInitKeepsInvalid(f) ==
    IF f.kind \in {"absent", "empty"}
    THEN [data |-> DefaultData, file |-> save_data(DefaultData), saved |-> TRUE,
          err |-> NoError]
    ELSE LET parsed == JsonLoad(f) IN
         IF ~parsed.ok
         THEN [data |-> DefaultData, file |-> f, saved |-> FALSE, err |-> NoError]
         ELSE IF parsed.shape = "scalar"
         THEN [data |-> DefaultData, file |-> f, saved |-> FALSE, err |-> "TypeError"]
         ELSE IF "tasks" \in parsed.keys /\ "count" \in parsed.keys
         THEN [data |-> parsed.value, file |-> f, saved |-> FALSE, err |-> NoError]
         ELSE [data |-> DefaultData, file |-> f, saved |-> FALSE, err |-> NoError]

\* The outcome of the constructor on file f: the new self.data, the new file,
\* whether _save_data ran, and the exception that left the constructor.
StorageInit(f) ==
    IF f.kind \in {"absent", "empty"}
    THEN [data |-> DefaultData, file |-> save_data(DefaultData), saved |-> TRUE,
          err |-> NoError]
    ELSE LET parsed == JsonLoad(f) IN
         IF ~parsed.ok
         THEN [data |-> DefaultData, file |-> save_data(DefaultData),
               saved |-> TRUE, err |-> NoError]
         ELSE IF parsed.shape = "scalar"
         THEN [data |-> DefaultData, file |-> f, saved |-> FALSE, err |-> "TypeError"]
         ELSE IF "tasks" \in parsed.keys /\ "count" \in parsed.keys
         THEN [data |-> parsed.value, file |-> f, saved |-> FALSE, err |-> NoError]
         ELSE [data |-> DefaultData, file |-> f, saved |-> FALSE, err |-> NoError]

\* main: TaskTrackerCli() constructs the TaskStorage outside any try block, so
\* an exception of the constructor ends the process.
Start ==
    /\ pc = "off"
    /\ LET r == StorageInit(file) IN
        /\ data' = r.data
        /\ file' = r.file
        /\ last' = [NoLast EXCEPT !.op = "init", !.saved = r.saved, !.err = r.err,
                                  !.before = data, !.fileBefore = file,
                                  !.deleted = last.deleted,
                                  !.exit = ExitOf("constructor", r.err)]
        /\ pc' = IF r.err = NoError THEN "ready" ELSE "off"
    /\ UNCHANGED <<clock, returned, peer>>

\* ------------------------------------------------------ TaskStorage.new_task
\* variant of IsBlank: only the empty string
IsEmpty(description) == description = <<>>

\* not description.strip()
IsBlank(description) == Strip(description) = <<>>

\* variants of NewId: the highest id in the sequence plus one; the length of
\* the sequence plus one
NewIdFromMax(d) ==
    LET ids == {d.tasks[i].id : i \in 1..Len(d.tasks)}
    IN  IF ids = {} THEN 1 ELSE 1 + CHOOSE m \in ids : \A k \in ids : k <= m

NewIdFromLen(d) == Len(d.tasks) + 1

\* new_count = self.data["count"] + 1
NewId(d) == d.count + 1

new_task(d, description, now) ==
    IF IsBlank(description)
    THEN [data |-> d, err |-> EmptyDescription, ret |-> 0, save |-> FALSE]
    ELSE IF d.shape # "dict"
    THEN [data |-> d, err |-> "TypeError", ret |-> 0, save |-> FALSE]
    ELSE LET new_count == NewId(d)
             task == [id |-> new_count, description |-> description,
                      status |-> "todo", createdAt |-> now, updatedAt |-> None]
         IN  [data |-> [d EXCEPT !.tasks = Append(d.tasks, task),
                                 !.count = new_count],
              err |-> NoError, ret |-> new_count, save |-> TRUE]

\* --------------------------------------------------- TaskStorage.update_task
valid_statuses == {"todo", "in-progress", "done"}

\* variant of FirstMatch: the loop variable still names the last task when no
\* id matched
FirstMatchOrLast(tasks, task_id) ==
    LET hits == {i \in 1..Len(tasks) : tasks[i].id = task_id}
    IN  IF hits = {} THEN Len(tasks) ELSE CHOOSE i \in hits : \A j \in hits : i <= j

\* index of the first task whose id is task_id, 0 when there is none
FirstMatch(tasks, task_id) ==
    LET hits == {i \in 1..Len(tasks) : tasks[i].id = task_id}
    IN  IF hits = {} THEN 0 ELSE CHOOSE i \in hits : \A j \in hits : i <= j

\* variants of ApplyUpdate: updatedAt is set only when a field is replaced;
\* the description is replaced even when it is empty; createdAt is refreshed
ApplyUpdateIfChanged(task, description, status, now) ==
    [task EXCEPT
        !.description = IF TruthyStr(description) THEN description ELSE @,
        !.status = IF TruthyStatus(status) THEN status[1] ELSE @,
        !.updatedAt = IF TruthyStr(description) \/ TruthyStatus(status)
                      THEN Some(now) ELSE @]

ApplyUpdateAlways(task, description, status, now) ==
    [task EXCEPT
        !.description = description,
        !.status = IF TruthyStatus(status) THEN status[1] ELSE @,
        !.updatedAt = Some(now)]

ApplyUpdateTouchesCreated(task, description, status, now) ==
    [task EXCEPT
        !.description = IF TruthyStr(description) THEN description ELSE @,
        !.status = IF TruthyStatus(status) THEN status[1] ELSE @,
        !.createdAt = now,
        !.updatedAt = Some(now)]

ApplyUpdate(task, description, status, now) ==
    [task EXCEPT
        !.description = IF TruthyStr(description) THEN description ELSE @,
        !.status = IF TruthyStatus(status) THEN status[1] ELSE @,
        !.updatedAt = Some(now)]

\* variant of update_task: the task is looked up before the status is checked
update_task_lookup_first(d, task_id, description, status, now) ==
    LET parsed == ParseInt(task_id) IN
    IF ~parsed.ok
    THEN [data |-> d, err |-> InvalidTaskId, ret |-> 0, save |-> FALSE]
    ELSE IF d.shape # "dict"
    THEN [data |-> d, err |-> "TypeError", ret |-> 0, save |-> FALSE]
    ELSE LET i == FirstMatch(d.tasks, parsed.val) IN
         IF i = 0
         THEN [data |-> d, err |-> TaskNotFound, ret |-> 0, save |-> FALSE]
         ELSE IF TruthyStatus(status) /\ status[1] \notin valid_statuses
         THEN [data |-> d, err |-> InvalidStatus, ret |-> 0, save |-> FALSE]
         ELSE [data |-> [d EXCEPT !.tasks[i] =
                                    ApplyUpdate(@, description, status, now)],
               err |-> NoError, ret |-> 0, save |-> TRUE]

update_task(d, task_id, description, status, now) ==
    LET parsed == ParseInt(task_id) IN
    IF ~parsed.ok
    THEN [data |-> d, err |-> InvalidTaskId, ret |-> 0, save |-> FALSE]
    ELSE IF TruthyStatus(status) /\ status[1] \notin valid_statuses
    THEN [data |-> d, err |-> InvalidStatus, ret |-> 0, save |-> FALSE]
    ELSE IF d.shape # "dict"
    THEN [data |-> d, err |-> "TypeError", ret |-> 0, save |-> FALSE]
    ELSE LET i == FirstMatch(d.tasks, parsed.val) IN
         IF i = 0
         THEN [data |-> d, err |-> TaskNotFound, ret |-> 0, save |-> FALSE]
         ELSE [data |-> [d EXCEPT !.tasks[i] =
                                    ApplyUpdate(@, description, status, now)],
               err |-> NoError, ret |-> 0, save |-> TRUE]

\* --------------------------------------------------- TaskStorage.delete_task
\* variant of Remaining: the task at position task_id is removed
RemainingByPosition(tasks, task_id) ==
    [i \in 1..(Len(tasks) - (IF task_id \in 1..Len(tasks) THEN 1 ELSE 0)) |->
        IF task_id \in 1..Len(tasks) /\ i >= task_id THEN tasks[i + 1] ELSE tasks[i]]

\* variant of Remaining: the tasks that stay are numbered anew
RemainingRenumbered(tasks, task_id) ==
    LET Keep(task) == task.id # task_id
        kept == SelectSeq(tasks, Keep)
    IN  [i \in 1..Len(kept) |-> [kept[i] EXCEPT !.id = i]]

\* [task for task in self.data["tasks"] if task["id"] != task_id]
Remaining(tasks, task_id) ==
    LET Keep(task) == task.id # task_id IN SelectSeq(tasks, Keep)

delete_task(d, task_id) ==
    LET parsed == ParseInt(task_id) IN
    IF ~parsed.ok
    THEN [data |-> d, err |-> InvalidTaskId, ret |-> 0, save |-> FALSE]
    ELSE IF d.shape # "dict"
    THEN [data |-> d, err |-> "TypeError", ret |-> 0, save |-> FALSE]
    ELSE LET original_count == Len(d.tasks)
             kept == [d EXCEPT !.tasks = Remaining(d.tasks, parsed.val)]
         IN  IF Len(kept.tasks) = original_count
             THEN [data |-> kept, err |-> TaskNotFound, ret |-> 0, save |-> FALSE]
             ELSE [data |-> kept, err |-> NoError, ret |-> 0, save |-> TRUE]

\* ----------------------------------------------------- TaskStorage.list_tasks
Ids(tasks) == [i \in 1..Len(tasks) |-> tasks[i].id]

Listing(d, err, kind, ids) ==
    [data |-> d, err |-> err, ret |-> 0, save |-> FALSE,
     out |-> [kind |-> kind, ids |-> ids]]

\* variant of list_tasks: the filtered list replaces self.data["tasks"]
list_tasks_filters_in_place(d, status_filter) ==
    IF d.shape # "dict"
    THEN Listing(d, "TypeError", "none", <<>>)
    ELSE IF d.tasks = <<>>
    THEN Listing(d, NoError, "No tasks found", <<>>)
    ELSE LET Wanted(task) == task.status = status_filter
             tasks == IF status_filter # ""
                      THEN SelectSeq(d.tasks, Wanted) ELSE d.tasks
             kept == [d EXCEPT !.tasks = tasks]
         IN  IF status_filter # "" /\ tasks = <<>>
             THEN Listing(kept, NoError, "No tasks with status", <<>>)
             ELSE Listing(kept, NoError, "table", Ids(tasks))

\* variant of list_tasks: one message for every empty result
list_tasks_one_message(d, status_filter) ==
    IF d.shape # "dict"
    THEN Listing(d, "TypeError", "none", <<>>)
    ELSE LET Wanted(task) == task.status = status_filter
             tasks == IF status_filter # ""
                      THEN SelectSeq(d.tasks, Wanted) ELSE d.tasks
         IN  IF tasks = <<>>
             THEN Listing(d, NoError, "No tasks found", <<>>)
             ELSE Listing(d, NoError, "table", Ids(tasks))

\* self.data after list_tasks and what it prints: the kind of output and the
\* ids of the rows, in order (a local variable holds the filtered list)
list_tasks(d, status_filter) ==
    IF d.shape # "dict"
    THEN Listing(d, "TypeError", "none", <<>>)
    ELSE IF d.tasks = <<>>
    THEN Listing(d, NoError, "No tasks found", <<>>)
    ELSE LET Wanted(task) == task.status = status_filter
             tasks == IF status_filter # ""
                      THEN SelectSeq(d.tasks, Wanted) ELSE d.tasks
         IN  IF status_filter # "" /\ tasks = <<>>
             THEN Listing(d, NoError, "No tasks with status", <<>>)
             ELSE Listing(d, NoError, "table", Ids(tasks))

\* ------------------------------------------------------------------ actions
\* One invocation runs one operation and exits; the operation's _save_data
\* is part of it.
Observed(op, r, task_id, description, status) ==
    [NoLast EXCEPT !.op = op, !.task_id = task_id,
                   !.description = description, !.status = status,
                   !.err = r.err, !.ret = r.ret, !.saved = r.save,
                   !.before = data, !.fileBefore = file,
                   !.deleted = IF op = "delete_task" /\ r.err = NoError
                               THEN Some(ParseInt(task_id).val) ELSE None,
                   !.afterDelete = last.deleted,
                   !.now = clock,
                   !.exit = ExitOf("execute", r.err)]

Finish(op, r, task_id, description, status) ==
    /\ data' = r.data
    /\ file' = IF r.save THEN save_data(r.data) ELSE file
    /\ last' = Observed(op, r, task_id, description, status)
    /\ pc' = "off"

NewTask ==
    /\ pc = "ready"
    /\ \E description \in Descriptions :
        /\ IsBlank(description) \/ Len(returned) < MaxCount
        /\ LET r == new_task(data, description, clock) IN
            /\ Finish("new_task", r, <<>>, description, None)
            /\ returned' = IF r.err = NoError THEN Append(returned, r.ret)
                           ELSE returned
    /\ UNCHANGED <<clock, peer>>

UpdateTask ==
    /\ pc = "ready"
    /\ \E task_id \in TaskIds, description \in Descriptions, status \in Statuses :
        Finish("update_task", update_task(data, task_id, description, status, clock),
               task_id, description, status)
    /\ UNCHANGED <<clock, returned, peer>>

DeleteTask ==
    /\ pc = "ready"
    /\ \E task_id \in TaskIds :
        Finish("delete_task", delete_task(data, task_id), task_id, <<>>, None)
    /\ UNCHANGED <<clock, returned, peer>>

ListTasks ==
    /\ pc = "ready"
    /\ \E status_filter \in StatusFilters :
        LET r == list_tasks(data, status_filter) IN
        /\ data' = r.data
        /\ file' = IF r.save THEN save_data(r.data) ELSE file
        /\ last' = [Observed("list_tasks", r, <<>>, <<>>, None)
                      EXCEPT !.filter = status_filter, !.out = r.out]
    /\ pc' = "off"
    /\ UNCHANGED <<clock, returned, peer>>

\* datetime.now() advances between invocations
Tick ==
    /\ pc = "off"
    /\ clock < MaxClock
    /\ clock' = clock + 1
    /\ UNCHANGED <<file, data, pc, last, returned, peer>>

Next == Start \/ NewTask \/ UpdateTask \/ DeleteTask \/ ListTasks \/ Tick

Spec == Init /\ [][Next]_vars

SpecAnyFile == InitAnyFile /\ [][Next]_vars

\* ------------------------------------------------- an interrupted _save_data
\* What a killed _save_data leaves: open(filename, 'w') has truncated the file
\* and json.dump has written nothing yet, or a proper prefix of the dump.
TornFiles == {FileOf("empty"), FileOf("partial")}

\* The results of the operations the running process can be executing.
Outcomes ==
    {[op |-> "new_task", task_id |-> <<>>, description |-> description,
      status |-> None, r |-> new_task(data, description, clock)] :
        description \in {x \in Descriptions : Len(returned) < MaxCount}}
    \cup {[op |-> "update_task", task_id |-> task_id, description |-> description,
           status |-> status,
           r |-> update_task(data, task_id, description, status, clock)] :
        task_id \in TaskIds, description \in Descriptions, status \in Statuses}
    \cup {[op |-> "delete_task", task_id |-> task_id, description |-> <<>>,
           status |-> None, r |-> delete_task(data, task_id)] :
        task_id \in TaskIds}

\* The process is killed inside _save_data, called by the constructor or by an
\* operation that succeeded in memory.
Killed ==
    /\ \/ /\ pc = "off"
          /\ StorageInit(file).saved
          /\ data' = DefaultData
          /\ last' = [NoLast EXCEPT !.op = "init", !.err = "killed",
                                    !.before = data, !.fileBefore = file]
       \/ /\ pc = "ready"
          /\ \E o \in Outcomes :
                /\ o.r.save
                /\ data' = o.r.data
                /\ last' = [Observed(o.op, o.r, o.task_id, o.description, o.status)
                              EXCEPT !.err = "killed", !.saved = FALSE,
                                     !.deleted = None]
    /\ file' \in TornFiles
    /\ pc' = "off"
    /\ UNCHANGED <<clock, returned, peer>>

NextCrash == Next \/ Killed

SpecCrash == Init /\ [][NextCrash]_vars

\* ------------------------------------------------ two invocations at a time
\* Nothing locks tasks.json: a second process can construct its TaskStorage
\* while the first has constructed its own and not yet run its operation.
PeerStart ==
    /\ pc = "ready"
    /\ peer.pc = "off"
    /\ LET r == StorageInit(file) IN
        /\ r.err = NoError
        /\ file' = r.file
        /\ peer' = [NoPeer EXCEPT !.pc = "ready", !.data = r.data,
                                  !.loaded = r.data]
    /\ UNCHANGED <<data, pc, clock, last, returned>>

\* The operations the second process runs.
PeerOutcomes ==
    {[op |-> "new_task", r |-> new_task(peer.data, description, clock)] :
        description \in {x \in {<<"a">>} : Len(returned) < MaxCount}}
    \cup {[op |-> "update_task",
           r |-> update_task(peer.data, <<"1">>, <<>>, Some("done"), clock)]}
    \cup {[op |-> "delete_task", r |-> delete_task(peer.data, <<"1">>)]}

PeerOperation ==
    /\ peer.pc = "ready"
    /\ \E o \in PeerOutcomes :
        /\ file' = IF o.r.save THEN save_data(o.r.data) ELSE file
        /\ peer' = [peer EXCEPT !.pc = "done", !.data = o.r.data, !.op = o.op,
                                !.err = o.r.err, !.ret = o.r.ret,
                                !.saved = o.r.save, !.afterFirst = (pc = "off")]
        /\ returned' = IF o.op = "new_task" /\ o.r.err = NoError
                       THEN Append(returned, o.r.ret) ELSE returned
    /\ UNCHANGED <<data, pc, clock, last>>

\* Invocations run one after another until two of them overlap; the run is
\* followed to the end of that pair.
NextTwo ==
    \/ peer.pc = "off" /\ Start
    \/ NewTask \/ UpdateTask \/ DeleteTask \/ ListTasks \/ Tick
    \/ PeerStart \/ PeerOperation

SpecTwo == Init /\ [][NextTwo]_vars
\* ===================================================================== claims
TaskIdsOf(tasks) == {tasks[i].id : i \in 1..Len(tasks)}

\* C1: from an empty store the ids returned by successful new_task calls are
\* 1, then strictly increasing, whatever update, delete and failing calls come
\* between them; an id once returned (deleted or not) is not returned again.
C1_ReturnedIdsIncrease ==
    /\ returned # <<>> => returned[1] = 1
    /\ \A i \in 1..Len(returned) : \A j \in 1..Len(returned) :
          i < j => returned[i] < returned[j]

\* a create that follows the deletion of the only task
C1_Witness ==
    /\ last.op = "new_task" /\ last.err = NoError
    /\ last.before.tasks = <<>> /\ last.before.count = 1
    /\ returned = <<1, 2>>

\* C2: count never decreases from one state to the next, every task id is at
\* most count, and no two tasks of the sequence share an id.
C2_CountAndIds ==
    /\ [](/\ \A i \in 1..Len(data.tasks) : data.tasks[i].id <= data.count
          /\ \A i \in 1..Len(data.tasks) : \A j \in 1..Len(data.tasks) :
                data.tasks[i].id = data.tasks[j].id => i = j)
    /\ [][data'.count >= data.count]_vars

\* a create after the first of two tasks was deleted
C2_Witness ==
    /\ last.op = "new_task" /\ last.err = NoError
    /\ TaskIdsOf(last.before.tasks) = {2}
    /\ TaskIdsOf(data.tasks) = {2, 3}
    /\ data.count = 3

\* C3: after initialization and after every operation the file holds exactly
\* the in-memory state.
C3_FileEqualsMemory ==
    (last.op # "none" /\ last.err # "killed" /\ last.err # "TypeError")
        => file = JsonDump(data)
\* the file conditions the constructor answers with the empty default
LacksKeys(f) == f.kind = "object" /\ ~({"tasks", "count"} \subseteq f.keys)

Unparsable(f) == f.kind \in {"invalid", "partial"}

\* C4, as claimed: when an invocation is interrupted while persisting, the
\* file holds the complete state before the operation or the complete state
\* after it.
C4_NoPartialWrite ==
    last.err = "killed" => file \in {last.fileBefore, JsonDump(data)}

\* C4, amended: a file that is empty or partially written comes only from an
\* interrupted invocation (or was there before the first run); every step
\* that completes leaves a complete JSON object in the file, and a constructor
\* that finds the file empty or partial replaces it by the empty default.
C4_TornOnlyWhenInterrupted ==
    /\ file.kind = "partial" => last.err = "killed"
    /\ (last.op # "none" /\ last.err # "killed") => file.kind = "object"
    /\ (last.op = "init" /\ last.err = NoError
            /\ last.fileBefore.kind \in {"empty", "partial", "invalid"})
          => (data = DefaultData /\ file = JsonDump(DefaultData))

\* an interrupted save has left a partial file where tasks were stored
C4_Witness ==
    /\ last.err = "killed" /\ file.kind = "partial"
    /\ last.fileBefore.kind = "object" /\ last.fileBefore.tasks # <<>>

\* tasks were lost: the constructor after the interruption starts empty
C4_WitnessRecovered ==
    /\ last.op = "init" /\ last.fileBefore.kind = "partial"
    /\ data = DefaultData /\ returned # <<>>

\* C5: a missing or corrupt file (absent, empty, not JSON, JSON that is not
\* an object with both keys) makes the process start with the empty default
\* without failing.
C5_CorruptFileStartsEmpty ==
    (/\ last.op = "init" /\ last.err # "killed"
     /\ \/ last.fileBefore.kind \in {"absent", "empty", "scalar", "array"}
        \/ Unparsable(last.fileBefore)
        \/ LacksKeys(last.fileBefore))
        => (last.err = NoError /\ pc = "ready" /\ data = DefaultData)

\* C6: whenever the constructor falls back to the empty default, the default
\* is in the file when it returns.
C6_FallbackIsPersisted ==
    (/\ last.op = "init" /\ last.err = NoError
     /\ \/ last.fileBefore.kind \in {"absent", "empty"}
        \/ Unparsable(last.fileBefore)
        \/ LacksKeys(last.fileBefore))
        => file = JsonDump(DefaultData)

AllWhitespace(s) == \A i \in 1..Len(s) : s[i] \in {" ", "\t"}

\* C7: new_task with an empty or whitespace-only description fails with
\* InvalidArgument, leaves tasks and count as they were and writes nothing.
C7_BlankCreateFails ==
    (last.op = "new_task" /\ AllWhitespace(last.description))
        => /\ last.err = EmptyDescription
           /\ last.err \in InvalidArgument
           /\ data = last.before
           /\ file = last.fileBefore
           /\ ~last.saved

\* a whitespace-only create on a store that holds tasks
C7_Witness ==
    /\ last.op = "new_task" /\ last.description = <<" ">>
    /\ last.err = EmptyDescription /\ last.before.tasks # <<>>

Present(tasks, id) == \E i \in 1..Len(tasks) : tasks[i].id = id

LastId == ParseInt(last.task_id)

Unchanged == data = last.before /\ file = last.fileBefore /\ ~last.saved

\* C8, as claimed: update with an id that is no integer fails with
\* InvalidArgument, update with an integer id no task has fails with NotFound,
\* and neither changes tasks, count or file.
C8_UpdateBadId ==
    last.op = "update_task" =>
        /\ ~LastId.ok => (last.err \in InvalidArgument /\ Unchanged)
        /\ (LastId.ok /\ ~Present(last.before.tasks, LastId.val))
              => (last.err \in NotFound /\ Unchanged)

\* C8, amended: the NotFound case is that of a status that is absent, empty
\* or valid; with any other status the failure is InvalidArgument.
C8_UpdateBadIdValidStatus ==
    last.op = "update_task" =>
        /\ ~LastId.ok => (last.err = InvalidTaskId /\ Unchanged)
        /\ (LastId.ok /\ ~Present(last.before.tasks, LastId.val))
              => /\ Unchanged
                 /\ IF last.status \in {<<>>, <<"">>, <<"todo">>, <<"in-progress">>,
                                        <<"done">>}
                    THEN last.err \in NotFound
                    ELSE last.err \in InvalidArgument

\* an update of an id no task has, on a store that holds tasks
C8_Witness ==
    /\ last.op = "update_task" /\ last.task_id = <<"9">>
    /\ last.status = <<"done">> /\ last.description = <<"a">>
    /\ last.err = TaskNotFound /\ last.before.tasks # <<>>

\* an update with an id that is no integer
C8_WitnessNotInteger ==
    /\ last.op = "update_task" /\ last.task_id = <<"x">>
    /\ last.err = InvalidTaskId /\ last.before.tasks # <<>>

\* C9: update with a status that is given and is none of todo, in-progress,
\* done fails with InvalidArgument for every integer id, present or not, and
\* changes nothing.
C9_BadStatusRejected ==
    (/\ last.op = "update_task" /\ LastId.ok
     /\ last.status \notin {<<>>, <<"">>, <<"todo">>, <<"in-progress">>, <<"done">>})
        => (last.err = InvalidStatus /\ last.err \in InvalidArgument /\ Unchanged)

\* a bad status with an id no task has, on a store that holds tasks
C9_Witness ==
    /\ last.op = "update_task" /\ last.task_id = <<"9">>
    /\ last.status = <<"bogus">> /\ last.err = InvalidStatus
    /\ last.before.tasks # <<>>

\* C10: delete of an id the store holds succeeds, and the delete of the same
\* id by the next invocation fails with NotFound; delete of any integer id no
\* task has fails with NotFound and changes and writes nothing.
C10_DeleteTwice ==
    (last.op = "delete_task" /\ LastId.ok) =>
        /\ Present(last.before.tasks, LastId.val) => last.err = NoError
        /\ ~Present(last.before.tasks, LastId.val)
              => (last.err \in NotFound /\ Unchanged)
        /\ last.afterDelete = <<LastId.val>> => last.err \in NotFound

\* the second delete of the same id, other tasks remaining
C10_Witness ==
    /\ last.op = "delete_task" /\ last.afterDelete = <<1>> /\ LastId.val = 1
    /\ last.err = TaskNotFound /\ data.tasks # <<>>
\* C11: a process that starts from a file the store persisted accepts it (no
\* fallback, no rewrite, no error) and holds the task sequence and count of
\* the process that persisted it.
C11_RoundTrip ==
    (last.op = "init" /\ returned # <<>>)
        => /\ last.err = NoError
           /\ ~last.saved
           /\ file = last.fileBefore
           /\ data.shape = "dict"
           /\ data.tasks = last.before.tasks
           /\ data.count = last.before.count

\* a reload of a state with an updated task and a deleted one
C11_Witness ==
    /\ last.op = "init" /\ pc = "ready"
    /\ data.count = 2 /\ Len(data.tasks) = 1
    /\ data.tasks[1].updatedAt # None

\* position in the sequence before the operation of the task it addressed
LastIndex ==
    CHOOSE i \in 1..Len(last.before.tasks) : last.before.tasks[i].id = LastId.val

StatusGiven(status) == status \notin {<<>>, <<"">>}

\* C12: a successful update replaces the description iff the given one is
\* non-empty, replaces the status iff one is given, always sets updatedAt to
\* the current time, changes nothing else and persists; with neither given it
\* still succeeds and changes only updatedAt.
C12_UpdateEffect ==
    (last.op = "update_task" /\ last.err = NoError) =>
        /\ Present(last.before.tasks, LastId.val)
        /\ LET old == last.before.tasks[LastIndex]
               new == data.tasks[LastIndex]
           IN  /\ new.description = IF last.description # <<>>
                                    THEN last.description ELSE old.description
               /\ new.status = IF StatusGiven(last.status)
                               THEN last.status[1] ELSE old.status
               /\ new.updatedAt = <<last.now>>
               /\ new.id = old.id /\ new.createdAt = old.createdAt
        /\ last.saved /\ file = JsonDump(data)

\* an update with neither description nor status, at a later time than the
\* task's creation
C12_Witness ==
    /\ last.op = "update_task" /\ last.err = NoError
    /\ last.description = <<>> /\ last.status = None
    /\ last.before.tasks[LastIndex].updatedAt = None
    /\ data.tasks[LastIndex].updatedAt = <<2>>
    /\ data.tasks[LastIndex].createdAt = 1
\* C13: every failure of an invocation, in the constructor or in the
\* operation, is printed as "Error: <message>" and the process does not crash.
C13_EveryFailureReported ==
    (last.err # NoError /\ last.err # "killed") => last.exit = "Error"

\* C14: list_tasks, with any filter or none, writes nothing to the file and
\* leaves the task sequence and count as they were.
C14_ListHasNoEffect ==
    last.op = "list_tasks" =>
        /\ data = last.before
        /\ file = last.fileBefore
        /\ ~last.saved

\* a listing that shows some tasks of the store and hides others
C14_Witness ==
    /\ last.op = "list_tasks" /\ last.filter = "done"
    /\ last.out.kind = "table"
    /\ Len(last.out.ids) < Len(last.before.tasks)

\* a listing with a filter that is no status
C14_WitnessBadFilter ==
    /\ last.op = "list_tasks" /\ last.filter = "bogus"
    /\ last.before.tasks # <<>> /\ last.out.kind = "No tasks with status"
\* the listing rendered no task
NothingListed == last.op = "list_tasks" /\ last.err = NoError /\ last.out.ids = <<>>

SomeWithStatus(tasks, status) == \E i \in 1..Len(tasks) : tasks[i].status = status

\* C15, as claimed: when the listing renders no task it reports "no tasks"
\* without a filter and "no tasks with status X" with a filter X, in every
\* state of the store.
C15_EmptyMessageByFilter ==
    NothingListed =>
        last.out.kind = IF last.filter = "" THEN "No tasks found"
                        ELSE "No tasks with status"

\* C15, amended: a store that holds no task reports "no tasks" with or
\* without a filter; a store that holds tasks, none of them with the status
\* X of the filter, reports "no tasks with status X"; otherwise rows are
\* rendered.
C15_EmptyMessageByStore ==
    (last.op = "list_tasks" /\ last.err = NoError) =>
        last.out.kind =
            IF last.before.tasks = <<>> THEN "No tasks found"
            ELSE IF last.filter # "" /\ ~SomeWithStatus(last.before.tasks, last.filter)
            THEN "No tasks with status"
            ELSE "table"

\* a filter that matches none of the tasks the store holds
C15_Witness ==
    /\ NothingListed /\ last.filter = "done"
    /\ last.before.tasks # <<>> /\ last.out.kind = "No tasks with status"

\* a filter on a store that holds no task
C15_WitnessEmptyStore ==
    /\ NothingListed /\ last.filter = "done"
    /\ last.before.tasks = <<>> /\ last.out.kind = "No tasks found"
    /\ returned # <<>>
\* C17: every stored task has a non-empty description and a status among
\* todo, in-progress, done; a task just created has the given description,
\* status todo, the current time as createdAt and no updatedAt.
C17_TaskFields ==
    /\ \A i \in 1..Len(data.tasks) :
          /\ data.tasks[i].description # <<>>
          /\ data.tasks[i].status \in {"todo", "in-progress", "done"}
    /\ (last.op = "new_task" /\ last.err = NoError) =>
          /\ Len(data.tasks) = Len(last.before.tasks) + 1
          /\ LET new == data.tasks[Len(data.tasks)]
             IN  /\ new.id = last.ret
                 /\ new.description = last.description
                 /\ new.status = "todo"
                 /\ new.createdAt = last.now
                 /\ new.updatedAt = None

\* a create on a store whose first task was marked done
C17_Witness ==
    /\ last.op = "new_task" /\ last.err = NoError
    /\ Len(data.tasks) = 2
    /\ data.tasks[1].status = "done" /\ data.tasks[1].updatedAt # None

\* C18: no step changes the id or the createdAt of a task the store keeps (a
\* task of the sequence is either the one just created or a task that was
\* there, at its id, with its createdAt), and a successful update keeps the
\* count, the length and order of the sequence and every field of every task
\* but the matched one.
C18_IdAndCreatedAtImmutable ==
    /\ \A i \in 1..Len(data.tasks) :
          \/ \E j \in 1..Len(last.before.tasks) :
                /\ last.before.tasks[j].id = data.tasks[i].id
                /\ last.before.tasks[j].createdAt = data.tasks[i].createdAt
          \/ /\ last.op = "new_task" /\ last.err = NoError
             /\ i = Len(data.tasks) /\ data.tasks[i].id = last.ret
    /\ (last.op = "update_task" /\ last.err = NoError) =>
          /\ data.count = last.before.count
          /\ Len(data.tasks) = Len(last.before.tasks)
          /\ \A i \in 1..Len(data.tasks) :
                /\ data.tasks[i].id = last.before.tasks[i].id
                /\ data.tasks[i].createdAt = last.before.tasks[i].createdAt
                /\ i # LastIndex => data.tasks[i] = last.before.tasks[i]

\* an update, later than its creation, of one of two tasks
C18_Witness ==
    /\ last.op = "update_task" /\ last.err = NoError
    /\ Len(data.tasks) = 2 /\ last.now = 2
    /\ data.tasks[LastIndex].createdAt = 1
    /\ data.tasks[LastIndex].description # last.before.tasks[LastIndex].description

\* C19: a successful delete removes the one task whose id matches: the
\* sequence after it is the sequence before it without that element, every
\* other task unchanged and in the same order, and count is unchanged.
C19_DeleteRemovesOne ==
    (last.op = "delete_task" /\ last.err = NoError) =>
        /\ data.count = last.before.count
        /\ \E k \in 1..Len(last.before.tasks) :
              /\ last.before.tasks[k].id = LastId.val
              /\ data.tasks = SubSeq(last.before.tasks, 1, k - 1)
                                \o SubSeq(last.before.tasks, k + 1,
                                          Len(last.before.tasks))
        /\ last.saved /\ file = JsonDump(data)

\* the delete of the second of three tasks
C19_Witness ==
    /\ last.op = "delete_task" /\ last.err = NoError
    /\ Len(last.before.tasks) = 3 /\ LastId.val = 2
    /\ Ids(data.tasks) = <<1, 3>>

\* C20: update of a task the store holds, with a description that is not
\* empty but all whitespace (and a status that is absent or valid), succeeds
\* and stores that description, which new_task would reject.
C20_UpdateStoresWhitespace ==
    (/\ last.op = "update_task" /\ LastId.ok
     /\ Present(last.before.tasks, LastId.val)
     /\ last.status \in {<<>>, <<"">>, <<"todo">>, <<"in-progress">>, <<"done">>}
     /\ last.description # <<>> /\ AllWhitespace(last.description))
        => /\ last.err = NoError
           /\ data.tasks[LastIndex].description = last.description
           /\ new_task(data, last.description, last.now).err = EmptyDescription

\* a stored task whose description is whitespace only
C20_Witness ==
    /\ last.op = "update_task" /\ last.err = NoError
    /\ last.description = <<" ">>
    /\ \E i \in 1..Len(data.tasks) : data.tasks[i].description = <<" ">>
    /\ file = JsonDump(data)
Mutating == {"new_task", "update_task", "delete_task"}

\* both invocations have run their operation, each from the state it loaded
\* before the other persisted, and both persisted
BothWrote ==
    /\ peer.pc = "done" /\ pc = "off"
    /\ last.op \in Mutating /\ last.saved /\ peer.saved

\* C16: when two invocations load the state before either persists, the file
\* after both is exactly the state of the one that wrote last, computed from
\* the state both loaded, so the mutation of the earlier writer is not in it;
\* two such creates return the same id and one task of the two survives.
C16_LastWriterWins ==
    BothWrote =>
        /\ last.before = peer.loaded
        /\ file = IF peer.afterFirst THEN JsonDump(peer.data) ELSE JsonDump(data)
        /\ (last.op = "new_task" /\ peer.op = "new_task") =>
              /\ last.ret = peer.ret
              /\ Len(file.tasks) = Len(peer.loaded.tasks) + 1
              /\ file.count = peer.loaded.count + 1

\* two creates at the same time, on a store that holds a task
C16_Witness ==
    /\ BothWrote /\ last.op = "new_task" /\ peer.op = "new_task"
    /\ peer.loaded.tasks # <<>>
    /\ returned = <<1, 2, 2>>

\* a delete written after a create at the same time: the created task is
\* not in the file
C16_WitnessLostCreate ==
    /\ BothWrote /\ last.op = "new_task" /\ peer.op = "delete_task"
    /\ peer.afterFirst /\ file.tasks = <<>> /\ file.count = 1
====
